---- MODULE Spec2Model ----
(***************************************************************************)
(* LfuDictCache (src/src/lfu_dict_cache.py): an LFU cache with LRU         *)
(* tie-breaking, built on DictCache (src/src/dict_cache.py), a bounded     *)
(* OrderedDict that moves every touched key to its most-recent end.        *)
(*                                                                         *)
(* A Python dict / OrderedDict is modelled as a sequence of records        *)
(* [key, val] in the container's iteration order.  A call that can raise   *)
(* is modelled as an operator returning [st, exc, ...]: the state the      *)
(* object is left in and the exception that left the call ("none" when it  *)
(* returned normally); mutations made before a raise are kept, as in       *)
(* Python.                                                                 *)
(***************************************************************************)
EXTENDS Integers, Sequences, FiniteSets, TLC

\* ---------------------------------------------------------------- bounds
MaxCap == 3     \* capacities tried: -NegCaps .. MaxCap
NegCaps == 2    \* negative capacities tried
IterCap == 2    \* SpecIter: the largest capacity tried
IterFreq == 2   \* SpecIter: a cache holding a count of IterFreq is called no further
MaxFreq == 3    \* a key whose count is MaxFreq is touched no further

Keys == {"a", "b", "c"}
Vals == {"v1", "v2"}
Caps == (0 - NegCaps)..MaxCap

None == "None"
NoKey == "-"
NoExc == "none"

VARIABLES
    alive,        \* TRUE iff the constructor returned an object
    max_size,     \* self._max_size
    values,       \* self._values: dict, in insertion order
    freq,         \* self._freq: dict key -> count
    freq_to_lru,  \* self._freq_to_lru: SortedDict count -> DictCache
    last,         \* the last call made: its name, arguments and outcome
    touched,      \* history: the stored keys, least recently touched first
    lastset,      \* history: stored key -> the value of the latest set of it
    ins_log,      \* history: the calls so far, while all were sets of new keys
    it,           \* the iterator last returned by __iter__ (NoIter: none yet)
    dcache,       \* a DictCache used on its own (None: none constructed)
    dlast,        \* the last call made on dcache
    dtouched      \* history: the keys of dcache, least recently touched first

\* the variables of the LfuDictCache and of the DictCache used on its own
lvars == <<alive, max_size, values, freq, freq_to_lru, last, touched,
           lastset, ins_log, it>>

dvars == <<dcache, dlast, dtouched>>

vars == <<lvars, dvars>>

\* ------------------------------------------- dict / OrderedDict primitives
od_keys(d) == [i \in 1..Len(d) |-> d[i].key]

od_keyset(d) == {d[i].key : i \in 1..Len(d)}

od_has(d, key) == key \in od_keyset(d)

od_index(d, key) == CHOOSE i \in 1..Len(d) : d[i].key = key

od_get(d, key) == d[od_index(d, key)].val

\* d[key] = value of a dict: a present key keeps its position
od_set(d, key, value) ==
    IF od_has(d, key)
    THEN [d EXCEPT ![od_index(d, key)].val = value]
    ELSE Append(d, [key |-> key, val |-> value])

od_del(d, key) == SelectSeq(d, LAMBDA e : e.key # key)

\* a slip: move_to_end(key, last=False)
move_to_front(d, key) ==
    <<d[od_index(d, key)]>> \o SelectSeq(d, LAMBDA e : e.key # key)

move_to_end(d, key) ==
    Append(od_del(d, key), d[od_index(d, key)])

popitem_first(d) == Tail(d)

\* the restriction of a dict without order (self._freq) to all keys but one
fn_del(f, key) == [x \in DOMAIN f \ {key} |-> f[x]]

fn_set(f, key, value) == [x \in DOMAIN f \cup {key} |-> IF x = key THEN value ELSE f[x]]

\* ---------------------------------------------------------------- DictCache
DictCache__init__(maxsize) == [maxsize |-> maxsize, items |-> <<>>]

\* a slip: the key read is not moved to the most recent end
DictCache__getitem__peek(c, key) ==
    IF ~od_has(c.items, key)
    THEN [st |-> c, exc |-> "KeyError", ret |-> None]
    ELSE [st |-> c, exc |-> NoExc, ret |-> od_get(c.items, key)]

DictCache__getitem__(c, key) ==
    IF ~od_has(c.items, key)
    THEN [st |-> c, exc |-> "KeyError", ret |-> None]
    ELSE [st |-> [c EXCEPT !.items = move_to_end(@, key)],
          exc |-> NoExc,
          ret |-> od_get(c.items, key)]

DictCache__setitem__(c, key, value) ==
    LET d1 == od_set(c.items, key, value)
        d2 == move_to_end(d1, key)
        d3 == IF Len(d2) > c.maxsize THEN popitem_first(d2) ELSE d2
    IN  [c EXCEPT !.items = d3]

DictCache__delitem__(c, key) ==
    IF ~od_has(c.items, key)
    THEN [st |-> c, exc |-> "KeyError"]
    ELSE [st |-> [c EXCEPT !.items = od_del(@, key)], exc |-> NoExc]

DictCache__iter__(c) == od_keys(c.items)

DictCache__len__(c) == Len(c.items)

\* ------------------------------------------------------------- LfuDictCache
\* The object: [max_size, values, freq, freq_to_lru].
Raise(S, e) == [st |-> S, exc |-> e]

Return(S) == [st |-> S, exc |-> NoExc]

\* a slip: no check of max_size
LfuDictCache__init__unchecked(n) ==
    Return([max_size |-> n, values |-> <<>>, freq |-> <<>>,
            freq_to_lru |-> <<>>])

LfuDictCache__init__(n) ==
    IF n < 0
    THEN [st |-> [max_size |-> 0, values |-> <<>>, freq |-> <<>>,
                  freq_to_lru |-> <<>>],
          exc |-> "ValueError"]
    ELSE Return([max_size |-> n, values |-> <<>>, freq |-> <<>>,
                 freq_to_lru |-> <<>>])

\* a slip: an emptied bucket stays in the index
_clean_freq_bucket_keep(S, f) == S

_clean_freq_bucket(S, f) ==
    IF DictCache__len__(S.freq_to_lru[f]) = 0
    THEN [S EXCEPT !.freq_to_lru = fn_del(@, f)]
    ELSE S

\* a slip: the count entry of the removed key is left behind
_remove_key_keeps_count(S, key) ==
    IF key \notin DOMAIN S.freq THEN Raise(S, "KeyError")
    ELSE
    LET f == S.freq[key] IN
    IF f \notin DOMAIN S.freq_to_lru THEN Raise(S, "KeyError")
    ELSE IF ~od_has(S.values, key) THEN Raise(S, "KeyError")
    ELSE
    LET S1 == [S EXCEPT !.values = od_del(@, key)]
        r  == DictCache__delitem__(S1.freq_to_lru[f], key)
    IN  IF r.exc # NoExc THEN Raise(S1, r.exc)
        ELSE Return(_clean_freq_bucket([S1 EXCEPT !.freq_to_lru[f] = r.st], f))

_remove_key(S, key) ==
    IF key \notin DOMAIN S.freq THEN Raise(S, "KeyError")
    ELSE
    LET f == S.freq[key] IN
    IF f \notin DOMAIN S.freq_to_lru THEN Raise(S, "KeyError")
    ELSE IF ~od_has(S.values, key) THEN Raise(S, "KeyError")
    ELSE
    LET S1 == [S EXCEPT !.values = od_del(@, key), !.freq = fn_del(@, key)]
        r  == DictCache__delitem__(S1.freq_to_lru[f], key)
    IN  IF r.exc # NoExc THEN Raise(S1, r.exc)
        ELSE Return(_clean_freq_bucket([S1 EXCEPT !.freq_to_lru[f] = r.st], f))

\* a slip: the bucket is made anew whether or not the index has it
_add_key_to_freq_fresh(S, key, f) ==
    LET S1 == [S EXCEPT !.freq_to_lru =
                   fn_set(@, f, DictCache__init__(S.max_size))]
    IN  [S1 EXCEPT !.freq_to_lru[f] = DictCache__setitem__(@, key, None)]

\* a slip: a new bucket is given one place less than the cache
_add_key_to_freq_small(S, key, f) ==
    LET S1 == IF f \notin DOMAIN S.freq_to_lru
              THEN [S EXCEPT !.freq_to_lru =
                        fn_set(@, f, DictCache__init__(S.max_size - 1))]
              ELSE S
    IN  [S1 EXCEPT !.freq_to_lru[f] = DictCache__setitem__(@, key, None)]

_add_key_to_freq(S, key, f) ==
    LET S1 == IF f \notin DOMAIN S.freq_to_lru
              THEN [S EXCEPT !.freq_to_lru =
                        fn_set(@, f, DictCache__init__(S.max_size))]
              ELSE S
    IN  [S1 EXCEPT !.freq_to_lru[f] = DictCache__setitem__(@, key, None)]

\* a slip: peekitem(-1), the largest count of the index
peekitem_last(index) == CHOOSE f \in DOMAIN index : \A g \in DOMAIN index : f >= g

\* SortedDict.peekitem(0): the smallest count of the index
peekitem_first(index) == CHOOSE f \in DOMAIN index : \A g \in DOMAIN index : f <= g

\* a slip: next(reversed(lru)), the most recently touched key of a bucket
next_reversed(lru) == DictCache__iter__(lru)[DictCache__len__(lru)]

\* next(iter(lru)): the first key of a bucket's iteration
next_iter(lru) == DictCache__iter__(lru)[1]

\* [st, exc, key]: key is the victim chosen (NoKey when none was)
_evict(S) ==
    IF DOMAIN S.freq_to_lru = {}
    THEN [st |-> S, exc |-> "IndexError", key |-> NoKey]
    ELSE
    LET lru == S.freq_to_lru[peekitem_first(S.freq_to_lru)]
    IN  IF DictCache__len__(lru) = 0
        THEN [st |-> S, exc |-> "StopIteration", key |-> NoKey]
        ELSE LET key == next_iter(lru)
                 r   == _remove_key(S, key)
             IN  [st |-> r.st, exc |-> r.exc, key |-> key]

_get_lru(S, f) ==
    IF f \notin DOMAIN S.freq_to_lru
    THEN [exc |-> "KeyError", ret |-> None]
    ELSE [exc |-> NoExc, ret |-> S.freq_to_lru[f]]

\* a slip: the key moves to the next bucket and its stored count stays
_increase_freq_stale(S, key) ==
    IF key \notin DOMAIN S.freq THEN Raise(S, "KeyError")
    ELSE
    LET old_freq == S.freq[key]
        new_freq == old_freq + 1
        old_lru  == _get_lru(S, old_freq)
    IN  IF old_lru.exc # NoExc THEN Raise(S, old_lru.exc)
        ELSE
        LET r == DictCache__delitem__(old_lru.ret, key)
        IN  IF r.exc # NoExc THEN Raise(S, r.exc)
            ELSE
            LET S1 == _clean_freq_bucket(
                          [S EXCEPT !.freq_to_lru[old_freq] = r.st], old_freq)
            IN  Return(_add_key_to_freq(S1, key, new_freq))

\* a slip: the emptied bucket of the old count is not cleaned
_increase_freq_no_clean(S, key) ==
    IF key \notin DOMAIN S.freq THEN Raise(S, "KeyError")
    ELSE
    LET old_freq == S.freq[key]
        new_freq == old_freq + 1
        old_lru  == _get_lru(S, old_freq)
    IN  IF old_lru.exc # NoExc THEN Raise(S, old_lru.exc)
        ELSE
        LET r == DictCache__delitem__(old_lru.ret, key)
        IN  IF r.exc # NoExc THEN Raise(S, r.exc)
            ELSE
            LET S1 == [S EXCEPT !.freq_to_lru[old_freq] = r.st]
                S2 == _add_key_to_freq(S1, key, new_freq)
            IN  Return([S2 EXCEPT !.freq = fn_set(@, key, new_freq)])

\* a slip: the key is not deleted from the bucket of its old count
_increase_freq_copy(S, key) ==
    IF key \notin DOMAIN S.freq THEN Raise(S, "KeyError")
    ELSE
    LET old_freq == S.freq[key]
        new_freq == old_freq + 1
        old_lru  == _get_lru(S, old_freq)
    IN  IF old_lru.exc # NoExc THEN Raise(S, old_lru.exc)
        ELSE
        LET S1 == _clean_freq_bucket(S, old_freq)
            S2 == _add_key_to_freq(S1, key, new_freq)
        IN  Return([S2 EXCEPT !.freq = fn_set(@, key, new_freq)])

_increase_freq(S, key) ==
    IF key \notin DOMAIN S.freq THEN Raise(S, "KeyError")
    ELSE
    LET old_freq == S.freq[key]
        new_freq == old_freq + 1
        old_lru  == _get_lru(S, old_freq)
    IN  IF old_lru.exc # NoExc THEN Raise(S, old_lru.exc)
        ELSE
        LET r == DictCache__delitem__(old_lru.ret, key)
        IN  IF r.exc # NoExc THEN Raise(S, r.exc)
            ELSE
            LET S1 == _clean_freq_bucket(
                          [S EXCEPT !.freq_to_lru[old_freq] = r.st], old_freq)
                S2 == _add_key_to_freq(S1, key, new_freq)
            IN  Return([S2 EXCEPT !.freq = fn_set(@, key, new_freq)])

\* a slip: > for >=
_is_full_strict(S) == Len(S.values) > S.max_size

_is_full(S) == Len(S.values) >= S.max_size

\* a slip: setdefault, a stored key keeps its old value
_set_value_default(S, key, value) ==
    IF od_has(S.values, key) THEN S
    ELSE [S EXCEPT !.values = od_set(@, key, value)]

\* a slip: the key is deleted and inserted again, so it moves to the end
_set_value_reinsert(S, key, value) ==
    [S EXCEPT !.values = Append(od_del(@, key), [key |-> key, val |-> value])]

_set_value(S, key, value) == [S EXCEPT !.values = od_set(@, key, value)]

\* ---------- dict-like API ----------
\* [st, exc, ret]
LfuDictCache__getitem__(S, key) ==
    IF ~od_has(S.values, key)
    THEN [st |-> S, exc |-> "KeyError", ret |-> None]
    ELSE LET value == od_get(S.values, key)
             r     == _increase_freq(S, key)
         IN  [st |-> r.st, exc |-> r.exc,
              ret |-> IF r.exc = NoExc THEN value ELSE None]

\* a slip: the new key is inserted before the eviction, which may choose it
LfuDictCache__setitem__evict_after(S, key, value) ==
    IF S.max_size = 0 THEN [st |-> S, exc |-> NoExc, key |-> NoKey]
    ELSE IF od_has(S.values, key)
    THEN LET r == _increase_freq(_set_value(S, key, value), key)
         IN  [st |-> r.st, exc |-> r.exc, key |-> NoKey]
    ELSE
    LET S1 == _set_value(S, key, value)
        S2 == [S1 EXCEPT !.freq = fn_set(@, key, 1)]
        S3 == _add_key_to_freq(S2, key, 1)
    IN  IF _is_full(S) THEN _evict(S3)
        ELSE [st |-> S3, exc |-> NoExc, key |-> NoKey]

\* a slip: no early return for max_size = 0
LfuDictCache__setitem__unguarded(S, key, value) ==
    IF od_has(S.values, key)
    THEN LET r == _increase_freq(_set_value(S, key, value), key)
         IN  [st |-> r.st, exc |-> r.exc, key |-> NoKey]
    ELSE
    LET e == IF _is_full(S) THEN _evict(S)
             ELSE [st |-> S, exc |-> NoExc, key |-> NoKey]
    IN  IF e.exc # NoExc THEN e
        ELSE LET S1 == _set_value(e.st, key, value)
                 S2 == [S1 EXCEPT !.freq = fn_set(@, key, 1)]
             IN  [st |-> _add_key_to_freq(S2, key, 1), exc |-> NoExc,
                  key |-> e.key]

\* a slip: a new key starts at count 0
LfuDictCache__setitem__from_zero(S, key, value) ==
    IF S.max_size = 0 THEN [st |-> S, exc |-> NoExc, key |-> NoKey]
    ELSE IF od_has(S.values, key)
    THEN LET r == _increase_freq(_set_value(S, key, value), key)
         IN  [st |-> r.st, exc |-> r.exc, key |-> NoKey]
    ELSE
    LET e == IF _is_full(S) THEN _evict(S)
             ELSE [st |-> S, exc |-> NoExc, key |-> NoKey]
    IN  IF e.exc # NoExc THEN e
        ELSE LET S1 == _set_value(e.st, key, value)
                 S2 == [S1 EXCEPT !.freq = fn_set(@, key, 0)]
             IN  [st |-> _add_key_to_freq(S2, key, 0), exc |-> NoExc,
                  key |-> e.key]

\* [st, exc, key]: key is the key evicted by this call (NoKey when none was)
LfuDictCache__setitem__(S, key, value) ==
    IF S.max_size = 0 THEN [st |-> S, exc |-> NoExc, key |-> NoKey]
    ELSE IF od_has(S.values, key)
    THEN LET r == _increase_freq(_set_value(S, key, value), key)
         IN  [st |-> r.st, exc |-> r.exc, key |-> NoKey]
    ELSE
    LET e == IF _is_full(S) THEN _evict(S)
             ELSE [st |-> S, exc |-> NoExc, key |-> NoKey]
    IN  IF e.exc # NoExc THEN e
        ELSE LET S1 == _set_value(e.st, key, value)
                 S2 == [S1 EXCEPT !.freq = fn_set(@, key, 1)]
             IN  [st |-> _add_key_to_freq(S2, key, 1), exc |-> NoExc,
                  key |-> e.key]

\* a slip: except KeyError: pass
LfuDictCache__delitem__pass(S, key) == Return(_remove_key(S, key).st)

LfuDictCache__delitem__(S, key) == _remove_key(S, key)

LfuDictCache__iter__(S) == od_keys(S.values)

LfuDictCache__len__(S) == Len(S.values)

\* ---------- the iterator __iter__ returns ----------
\* An iterator is [status, view, used, pos, stale, snapshot, yielded,
\* disturbed]:
\*   status    "live"; "done": StopIteration was raised; "failed":
\*             RuntimeError was raised; "astray": it went on over a dict
\*             whose keys had changed, and is followed no further
\*   view      "dict": it reads the dict itself; "list": it reads a copy
\*   used      the size of the dict when the iterator was made
\*   pos       the number of entries passed
\*   stale     the dict's key sequence changed since the iterator was made
\*   snapshot  history: the keys stored when the iterator was made
\*   yielded   history: the keys yielded so far
\*   disturbed history: since the iterator was made, a set of a key that was
\*             not stored or a delete of a stored key was called
NoIter ==
    [status |-> "none", view |-> "dict", used |-> 0, pos |-> 0,
     stale |-> FALSE, snapshot |-> <<>>, yielded |-> <<>>,
     disturbed |-> FALSE]

\* iter(d) of a dict: a view of the dict
dict_iter(d) ==
    [status |-> "live", view |-> "dict", used |-> Len(d), pos |-> 0,
     stale |-> FALSE, snapshot |-> od_keys(d), yielded |-> <<>>,
     disturbed |-> FALSE]

Yield(i, key) ==
    [it |-> [i EXCEPT !.pos = @ + 1, !.yielded = Append(@, key)],
     exc |-> NoExc, ret |-> key]

Stop(i, e) ==
    [it |-> [i EXCEPT !.status = IF e = "StopIteration" THEN "done"
                                  ELSE "failed"],
     exc |-> e, ret |-> None]

Astray(i) == [it |-> [i EXCEPT !.status = "astray"], exc |-> NoExc, ret |-> None]

\* next(i) on dict d: the set of outcomes [it, exc, ret].  A dict iterator
\* raises RuntimeError when the dict's size is not the size it started
\* with.  When the keys changed and the size is the same again, what it
\* does depends on the dict's internal layout: it raises RuntimeError, or it
\* goes on (yielding or stopping) over entries that are not the ones it
\* started with.
iter_next(i, d) ==
    IF i.view = "list"
    THEN IF i.pos < Len(i.snapshot)
         THEN {Yield(i, i.snapshot[i.pos + 1])}
         ELSE {Stop(i, "StopIteration")}
    ELSE IF Len(d) # i.used THEN {Stop(i, "RuntimeError")}
    ELSE IF i.stale THEN {Stop(i, "RuntimeError"), Astray(i)}
    ELSE IF i.pos < Len(d) THEN {Yield(i, d[i.pos + 1].key)}
    ELSE {Stop(i, "StopIteration")}

\* a slip of the other kind: __iter__ returns iter(list(self._values))
iter_values_copy(S) == [dict_iter(S.values) EXCEPT !.view = "list"]

\* the object __iter__ returns: iter(self._values)
iter_values(S) == dict_iter(S.values)

\* the iterator held, after a call that left the value map as S.values: a
\* finished iterator is dropped; a live view of a dict whose key sequence
\* changed is stale (and its place in the old entries means nothing)
iter_seen(i, d, S, structural) ==
    IF i.status # "live" THEN NoIter
    ELSE IF i.view = "dict" /\ od_keys(S.values) # od_keys(d)
    THEN [i EXCEPT !.stale = TRUE, !.pos = 0, !.snapshot = <<>>,
                   !.yielded = <<>>, !.disturbed = @ \/ structural]
    ELSE [i EXCEPT !.disturbed = @ \/ structural]

\* -------------------------------------------------------------- the machine
Self == [max_size |-> max_size, values |-> values, freq |-> freq,
         freq_to_lru |-> freq_to_lru]

Store(S) ==
    /\ max_size' = S.max_size
    /\ values' = S.values
    /\ freq' = S.freq
    /\ freq_to_lru' = S.freq_to_lru

Stored(key) == od_has(values, key)

Call(op, key, val, exc, ret, evicted) ==
    [op |-> op, key |-> key, val |-> val, exc |-> exc, ret |-> ret,
     evicted |-> evicted]

Without(s, key) == SelectSeq(s, LAMBDA x : x # key)

\* history: a call that touched key moves it to the end; removed keys leave
Touch(S, key, hit) ==
    LET kept == SelectSeq(touched, LAMBDA x : od_has(S.values, x) /\ x # key)
    IN  IF hit /\ od_has(S.values, key) THEN Append(kept, key)
        ELSE SelectSeq(touched, LAMBDA x : od_has(S.values, x))

\* history: the value of the latest set of each key that is stored afterwards
SetLog(S, op, key, value) ==
    LET m == IF op = "set" THEN fn_set(lastset, key, value) ELSE lastset
    IN  [x \in {y \in DOMAIN m : od_has(S.values, y)} |-> m[x]]

Impure == [pure |-> FALSE, keys |-> <<>>]

\* history: the keys set so far, while every call was a set of a fresh key
Logged(op, key) ==
    IF /\ op = "set"
       /\ ins_log.pure
       /\ Len(ins_log.keys) <= max_size
       /\ \A i \in 1..Len(ins_log.keys) : ins_log.keys[i] # key
    THEN [ins_log EXCEPT !.keys = Append(@, key)]
    ELSE Impure

Init ==
    \E n \in Caps :
        LET r == LfuDictCache__init__(n)
        IN  /\ alive = (r.exc = NoExc)
            /\ max_size = r.st.max_size
            /\ values = r.st.values
            /\ freq = r.st.freq
            /\ freq_to_lru = r.st.freq_to_lru
            /\ last = Call("init", NoKey, n, r.exc, None, NoKey)
            /\ touched = <<>>
            /\ lastset = <<>>
            /\ ins_log = [pure |-> TRUE, keys |-> <<>>]
            /\ it = NoIter
            /\ dcache = None
            /\ dlast = None
            /\ dtouched = <<>>

Get(key) ==
    /\ alive
    /\ key \in DOMAIN freq => freq[key] < MaxFreq
    /\ LET r == LfuDictCache__getitem__(Self, key)
       IN  /\ Store(r.st)
           /\ last' = Call("get", key, None, r.exc, r.ret, NoKey)
           /\ touched' = Touch(r.st, key, r.exc = NoExc)
           /\ lastset' = SetLog(r.st, "get", key, None)
           /\ it' = iter_seen(it, values, r.st, FALSE)
    /\ ins_log' = Logged("get", key)
    /\ UNCHANGED <<alive, dvars>>

Set(key, value) ==
    /\ alive
    /\ key \in DOMAIN freq => freq[key] < MaxFreq
    /\ LET r == LfuDictCache__setitem__(Self, key, value)
       IN  /\ Store(r.st)
           /\ last' = Call("set", key, value, r.exc, None, r.key)
           /\ touched' = Touch(r.st, key, r.exc = NoExc)
           /\ lastset' = SetLog(r.st, "set", key, value)
           /\ it' = iter_seen(it, values, r.st, ~Stored(key) /\ max_size # 0)
    /\ ins_log' = Logged("set", key)
    /\ UNCHANGED <<alive, dvars>>

Del(key) ==
    /\ alive
    /\ LET r == LfuDictCache__delitem__(Self, key)
       IN  /\ Store(r.st)
           /\ last' = Call("del", key, None, r.exc, None, NoKey)
           /\ touched' = Touch(r.st, key, FALSE)
           /\ lastset' = SetLog(r.st, "del", key, None)
           /\ it' = iter_seen(it, values, r.st, Stored(key))
    /\ ins_log' = Logged("del", key)
    /\ UNCHANGED <<alive, dvars>>

Next ==
    \/ \E key \in Keys : Get(key)
    \/ \E key \in Keys, value \in Vals : Set(key, value)
    \/ \E key \in Keys : Del(key)

Spec == Init /\ [][Next]_vars

\* ---------------------------------------- the machine, with iteration
\* __iter__ is called: the iterator it returns replaces the one held
Iter ==
    /\ alive
    /\ it' = iter_values(Self)
    /\ last' = Call("iter", NoKey, None, NoExc, None, NoKey)
    /\ ins_log' = Logged("iter", NoKey)
    /\ UNCHANGED <<alive, max_size, values, freq, freq_to_lru, touched,
                   lastset, dvars>>

\* next() is called on the iterator held
IterNext ==
    /\ alive
    /\ it.status = "live"
    /\ \E r \in iter_next(it, values) :
           /\ it' = r.it
           /\ last' = Call("next", NoKey, None, r.exc, r.ret, NoKey)
    /\ ins_log' = Logged("next", NoKey)
    /\ UNCHANGED <<alive, max_size, values, freq, freq_to_lru, touched,
                   lastset, dvars>>

\* the cache calls made around an iteration: capacities are at most IterCap
\* and counts at most IterFreq
NextIter ==
    \/ Next /\ \A k \in DOMAIN freq : freq[k] < IterFreq
    \/ Iter
    \/ IterNext

InitIter == Init /\ max_size <= IterCap

SpecIter == InitIter /\ [][NextIter]_vars

\* ------------------------------------------- a DictCache used on its own
DictCaps == 1..MaxCap

\* history: a call that touched key moves it to the end; removed keys leave
DTouch(c, key, hit) ==
    LET kept == SelectSeq(dtouched, LAMBDA x : od_has(c.items, x) /\ x # key)
    IN  IF hit /\ od_has(c.items, key) THEN Append(kept, key)
        ELSE SelectSeq(dtouched, LAMBDA x : od_has(c.items, x))

\* the key a call removed besides the one it was given, NoKey if none
Dropped(c, key) ==
    LET gone == (od_keyset(dcache.items) \ od_keyset(c.items)) \ {key}
    IN  IF gone = {} THEN NoKey ELSE CHOOSE x \in gone : TRUE

\* DictCache(maxsize), no LfuDictCache in use
InitDict ==
    \E maxsize \in DictCaps :
        LET r == LfuDictCache__init__(0)
        IN  /\ dcache = DictCache__init__(maxsize)
            /\ dlast = Call("init", NoKey, maxsize, NoExc, None, NoKey)
            /\ dtouched = <<>>
            /\ alive = FALSE
            /\ max_size = r.st.max_size
            /\ values = r.st.values
            /\ freq = r.st.freq
            /\ freq_to_lru = r.st.freq_to_lru
            /\ last = None
            /\ touched = <<>>
            /\ lastset = <<>>
            /\ ins_log = Impure
            /\ it = NoIter

DictGet(key) ==
    /\ LET r == DictCache__getitem__(dcache, key)
       IN  /\ dcache' = r.st
           /\ dlast' = Call("get", key, None, r.exc, r.ret, Dropped(r.st, key))
           /\ dtouched' = DTouch(r.st, key, r.exc = NoExc)
    /\ UNCHANGED lvars

DictSet(key, value) ==
    /\ LET c == DictCache__setitem__(dcache, key, value)
       IN  /\ dcache' = c
           /\ dlast' = Call("set", key, value, NoExc, None, Dropped(c, key))
           /\ dtouched' = DTouch(c, key, TRUE)
    /\ UNCHANGED lvars

DictDel(key) ==
    /\ LET r == DictCache__delitem__(dcache, key)
       IN  /\ dcache' = r.st
           /\ dlast' = Call("del", key, None, r.exc, None, Dropped(r.st, key))
           /\ dtouched' = DTouch(r.st, key, FALSE)
    /\ UNCHANGED lvars

NextDict ==
    \/ \E key \in Keys : DictGet(key)
    \/ \E key \in Keys, value \in Vals : DictSet(key, value)
    \/ \E key \in Keys : DictDel(key)

SpecDict == InitDict /\ [][NextDict]_vars

\* ------------------------------------------------------- helpers of claims
\* how many times key occurs in bucket f of the index
Occurrences(index, f, key) ==
    IF f \notin DOMAIN index THEN 0
    ELSE Cardinality({i \in 1..DictCache__len__(index[f]) :
                          index[f].items[i].key = key})

\* the number of keys held by the buckets whose counts are in fs
RECURSIVE BucketTotal(_, _)
BucketTotal(index, fs) ==
    IF fs = {} THEN 0
    ELSE LET f == CHOOSE g \in fs : TRUE
         IN  DictCache__len__(index[f]) + BucketTotal(index, fs \ {f})

StoredKeys == od_keyset(values)

Pos(s, x) == CHOOSE i \in 1..Len(s) : s[i] = x

\* the keys of the bucket of count f, in the bucket's order
BucketKeys(index, f) ==
    IF f \in DOMAIN index THEN DictCache__iter__(index[f]) ELSE <<>>

\* the step is a call of op (last' is the call the step made)
Called(op) == last'.op = op

Evicting == Called("set") /\ last'.evicted # NoKey

\* ------------------------------------------------------------------ claims
\* C1: for every capacity C >= 0, after any sequence of get, set and delete,
\* len() is at most C.
C1_LenAtMostCapacity == alive => LfuDictCache__len__(Self) <= max_size

\* a full cache of capacity >= 2 right after a set that evicted
C1_Witness ==
    /\ alive /\ max_size >= 2
    /\ LfuDictCache__len__(Self) = max_size
    /\ last.op = "set" /\ last.evicted # NoKey

\* C2: when a set of a new key evicts, the evicted key's count (before the
\* set) is at most the count of every key stored at that moment.
C2_EvictsLowestCount ==
    [][Evicting =>
          /\ last'.evicted \in StoredKeys
          /\ \A k \in StoredKeys : freq[last'.evicted] <= freq[k]]_vars

\* an eviction that spared a key of count >= 2
C2_Witness ==
    /\ last.op = "set" /\ last.evicted # NoKey
    /\ \E k \in StoredKeys : k # last.key /\ freq[k] >= 2

\* the step evicts, among the keys tied at the lowest count, the one whose
\* latest touch is the oldest
C3_EvictsOldestOfTied ==
    Evicting =>
        LET tied == {k \in StoredKeys : \A j \in StoredKeys : freq[k] <= freq[j]}
        IN  /\ last'.evicted \in tied
            /\ \A k \in tied : Pos(touched, last'.evicted) <= Pos(touched, k)

\* C distinct keys were set into an empty cache of capacity C >= 1, then one
\* more, and nothing else was called: the first of them is the one evicted
C3_FirstInsertedEvicted ==
    (alive /\ max_size >= 1 /\ ins_log.pure
        /\ Len(ins_log.keys) = max_size + 1) =>
            /\ last.evicted = ins_log.keys[1]
            /\ od_keys(values) = Tail(ins_log.keys)

\* C3: an evicting set evicts, among the keys tied at the minimum count, the
\* one whose most recent touch (insertion, get or overwriting set) is the
\* earliest; after C distinct insertions into a cache of capacity C >= 1 and
\* nothing else, one more distinct insertion evicts the first-inserted key.
C3_LruTieBreak == [][C3_EvictsOldestOfTied]_vars /\ []C3_FirstInsertedEvicted

\* capacity 2, three distinct keys set and nothing else called
C3_Witness ==
    /\ alive /\ max_size >= 2 /\ ins_log.pure
    /\ Len(ins_log.keys) = max_size + 1
    /\ last.evicted # NoKey

\* C4: a get of a present key, and a set on a present key, raise nothing,
\* increase that key's count by exactly 1 and never evict: the set of stored
\* keys and len() are the same before and after.
C4_TouchAddsOne ==
    [][((Called("get") \/ Called("set")) /\ Stored(last'.key)) =>
          /\ last'.exc = NoExc
          /\ last'.evicted = NoKey
          /\ freq'[last'.key] = freq[last'.key] + 1
          /\ StoredKeys' = StoredKeys
          /\ LfuDictCache__len__(Self)' = LfuDictCache__len__(Self)]_vars

\* a full cache of two keys right after an overwriting set of a key that had
\* been touched before
C4_Witness ==
    /\ last.op = "set" /\ last.exc = NoExc /\ last.evicted = NoKey
    /\ Stored(last.key) /\ freq[last.key] = 3
    /\ Len(values) = max_size /\ max_size >= 2

\* C5: a get of a present key k returns the value of the most recent
\* set(k, v), whatever was called on other keys in between; an overwriting
\* set replaces the value in place (the key keeps its place in the value map).
C5_GetReturnsLatestSet ==
    [][/\ (Called("get") /\ Stored(last'.key)) =>
              /\ last'.exc = NoExc
              /\ last'.key \in DOMAIN lastset
              /\ last'.ret = lastset[last'.key]
       /\ (Called("set") /\ Stored(last'.key)) =>
              /\ od_keys(values') = od_keys(values)
              /\ od_get(values', last'.key) = last'.val
              /\ \A k \in StoredKeys \ {last'.key} :
                     od_get(values', k) = od_get(values, k)]_vars

\* a get that returned a value other than the one of another stored key
C5_Witness ==
    /\ last.op = "get" /\ last.exc = NoExc /\ last.ret = "v2"
    /\ \E k \in StoredKeys : k # last.key /\ od_get(values, k) = "v1"
    /\ freq[last.key] = 3

\* C6: for capacity >= 1, set(k, v) of a key that is not stored raises
\* nothing and leaves k stored with value v and count 1; below capacity no
\* key is removed and len() grows by 1; at capacity exactly one other key is
\* removed and len() stays equal to the capacity.
C6_InsertNewKey ==
    [][(Called("set") /\ max_size >= 1 /\ ~Stored(last'.key)) =>
          /\ last'.exc = NoExc
          /\ od_has(values', last'.key)
          /\ od_get(values', last'.key) = last'.val
          /\ last'.key \in DOMAIN freq'
          /\ freq'[last'.key] = 1
          /\ IF LfuDictCache__len__(Self) < max_size
             THEN /\ StoredKeys' = StoredKeys \cup {last'.key}
                  /\ LfuDictCache__len__(Self)' = LfuDictCache__len__(Self) + 1
                  /\ last'.evicted = NoKey
             ELSE /\ LfuDictCache__len__(Self) = max_size
                  /\ \E e \in StoredKeys :
                        /\ e # last'.key
                        /\ e = last'.evicted
                        /\ StoredKeys' = (StoredKeys \ {e}) \cup {last'.key}
                  /\ LfuDictCache__len__(Self)' = max_size]_vars

\* a set of a new key into a full cache, whose other key has count 3
C6_Witness ==
    /\ last.op = "set" /\ last.exc = NoExc /\ last.evicted # NoKey
    /\ Stored(last.key) /\ freq[last.key] = 1 /\ last.val = "v2"
    /\ \E k \in StoredKeys : freq[k] = 3

\* C7: a get or a delete of a key that is not stored fails with KeyError and
\* leaves the value map, the count map, the frequency index and the order
\* inside every bucket as they were.
C7_MissLeavesState ==
    [][((Called("get") \/ Called("del")) /\ ~Stored(last'.key)) =>
          /\ last'.exc = "KeyError"
          /\ UNCHANGED <<max_size, values, freq, freq_to_lru>>]_vars

\* a failed delete on a cache that holds two keys
C7_Witness ==
    /\ last.op = "del" /\ last.exc = "KeyError"
    /\ ~Stored(last.key) /\ Len(values) = 2

\* C8: a delete of a stored key k raises nothing and removes k and nothing
\* else: k is no longer stored, len() is one less, every other key keeps its
\* value, its count and its place among the other keys of its bucket and of
\* the iteration order; a second delete of k right after fails with KeyError.
C8_DeleteRemovesOnlyKey ==
    [][/\ (Called("del") /\ Stored(last'.key)) =>
              /\ last'.exc = NoExc
              /\ ~od_has(values', last'.key)
              /\ LfuDictCache__len__(Self)' = LfuDictCache__len__(Self) - 1
              /\ LfuDictCache__iter__(Self)' =
                     Without(LfuDictCache__iter__(Self), last'.key)
              /\ DOMAIN freq' = DOMAIN freq \ {last'.key}
              /\ \A k \in StoredKeys \ {last'.key} :
                     /\ od_get(values', k) = od_get(values, k)
                     /\ freq'[k] = freq[k]
              /\ \A f \in DOMAIN freq_to_lru \cup DOMAIN freq_to_lru' :
                     BucketKeys(freq_to_lru', f) =
                         Without(BucketKeys(freq_to_lru, f), last'.key)
       /\ (last.op = "del" /\ last.exc = NoExc /\ Called("del")
              /\ last'.key = last.key) =>
              last'.exc = "KeyError"]_vars

\* a delete that left behind two keys sharing a bucket
C8_Witness ==
    /\ last.op = "del" /\ last.exc = NoExc /\ ~Stored(last.key)
    /\ \E f \in DOMAIN freq_to_lru : DictCache__len__(freq_to_lru[f]) = 2

\* C9: iterate() lists the stored keys in the order of their latest insertion
\* as new keys: a get or an overwriting set leaves the sequence unchanged, a
\* set of a new key appends it at the end, a delete or an eviction removes
\* only that key and does not reorder the others.
C9_IterInsertionOrder ==
    [][LET before == LfuDictCache__iter__(Self)
           after  == LfuDictCache__iter__(Self)'
       IN  /\ Called("get") => after = before
           /\ (Called("set") /\ Stored(last'.key)) => after = before
           /\ (Called("set") /\ ~Stored(last'.key) /\ max_size >= 1) =>
                  /\ after = Append(Without(before, last'.evicted), last'.key)
                  /\ Len(after) >= Len(before)
           /\ Called("del") => after = Without(before, last'.key)]_vars

\* a get of the first-inserted key, after which it is still iterated first
\* although it is now the most recently touched
C9_Witness ==
    /\ last.op = "get" /\ last.exc = NoExc
    /\ Len(values) = 2
    /\ LfuDictCache__iter__(Self)[1] = last.key
    /\ touched = <<LfuDictCache__iter__(Self)[2], LfuDictCache__iter__(Self)[1]>>

\* C10: with capacity 0, after any sequence of set, get and delete len() is
\* 0, every set raises nothing and changes no state, and every get fails
\* with KeyError.
C10_ZeroCapacity ==
    [][(alive /\ max_size = 0) =>
          /\ LfuDictCache__len__(Self) = 0
          /\ LfuDictCache__len__(Self)' = 0
          /\ Called("set") =>
                 /\ last'.exc = NoExc
                 /\ UNCHANGED <<max_size, values, freq, freq_to_lru>>
          /\ Called("get") => last'.exc = "KeyError"]_vars

\* a set on a cache of capacity 0 has returned
C10_Witness ==
    /\ alive /\ max_size = 0 /\ last.op = "set" /\ last.exc = NoExc
    /\ LfuDictCache__len__(Self) = 0

\* C11: constructing with a negative capacity raises ValueError and yields
\* no object (no call is ever made on it); constructing with a capacity
\* >= 0 raises nothing and yields an empty cache of that capacity.
C11_Construct ==
    /\ ~alive => /\ last.op = "init" /\ last.exc = "ValueError"
                 /\ last.val < 0
    /\ (alive /\ last.op = "init") =>
           /\ last.exc = NoExc
           /\ last.val >= 0
           /\ max_size = last.val
           /\ LfuDictCache__len__(Self) = 0
           /\ LfuDictCache__iter__(Self) = <<>>
           /\ DOMAIN freq = {} /\ DOMAIN freq_to_lru = {}

\* the constructor was called with -2 and raised
C11_Witness == ~alive /\ last.op = "init" /\ last.val = 0 - 2

\* C12 as claimed: an iteration yields the keys stored when iterate() was
\* called, whatever sets and deletes are made while it is consumed, and
\* consuming it never fails.
C12_Snapshot ==
    /\ it.status \notin {"failed", "astray"}
    /\ it.status = "done" => it.yielded = it.snapshot

\* C12, amended: the iterator is a view of the value map.  While no set of a
\* new key and no delete was called since iterate() (gets and overwriting
\* sets may have been), each step yields the next key stored at the call, in
\* insertion order, and the iteration ends after the last of them; when the
\* number of stored keys is not the number at the call, the step raises
\* RuntimeError.
C12_LiveView ==
    /\ [][Called("next") =>
             /\ Len(values) # it.used => last'.exc = "RuntimeError"
             /\ ~it.disturbed =>
                    IF it.pos < Len(it.snapshot)
                    THEN /\ last'.exc = NoExc
                         /\ last'.ret = it.snapshot[it.pos + 1]
                         /\ it'.status = "live"
                    ELSE last'.exc = "StopIteration"]_vars
    /\ [](it.status = "done" => it.yielded = it.snapshot)

\* a step of an iteration failed after the cache had grown
C12_Witness ==
    /\ last.op = "next" /\ last.exc = "RuntimeError"
    /\ it.status = "failed" /\ it.used >= 1
    /\ LfuDictCache__len__(Self) > it.used

\* C13: a DictCache of capacity M >= 1 used on its own never holds more than
\* M keys and lists them least recently touched (get or set) first; a set of
\* an absent key into a full map removes exactly the least recently touched
\* key and keeps the key set; any other set removes nothing.
C13_Bounded ==
    /\ DictCache__len__(dcache) <= dcache.maxsize
    /\ DictCache__iter__(dcache) = dtouched

C13_SetStep ==
    dlast'.op = "set" =>
        LET key == dlast'.key
            before == od_keyset(dcache.items)
            after == od_keyset(dcache'.items)
        IN  /\ key \in after
            /\ od_get(dcache'.items, key) = dlast'.val
            /\ IF key \notin before /\ DictCache__len__(dcache) = dcache.maxsize
               THEN /\ before \ after = {Head(dtouched)}
                    /\ Head(dtouched) # key
                    /\ after = (before \ {Head(dtouched)}) \cup {key}
               ELSE after = before \cup {key}

C13_DictCacheAlone == []C13_Bounded /\ [][C13_SetStep]_vars

\* a set of c into a full map of capacity 2 removed b and kept a
C13_Witness ==
    /\ dlast.op = "set" /\ dlast.key = "c" /\ dlast.evicted = "b"
    /\ dcache.maxsize = 2
    /\ DictCache__iter__(dcache) = <<"a", "c">>

\* C14: the value map and the count map have the same keys; every stored key
\* occurs once in the bucket of its count and in no other bucket; the buckets
\* together hold len() keys.
C14_OneBucketPerKey ==
    alive =>
        /\ od_keyset(values) = DOMAIN freq
        /\ \A k \in StoredKeys :
               /\ freq[k] \in DOMAIN freq_to_lru
               /\ \A f \in DOMAIN freq_to_lru :
                      Occurrences(freq_to_lru, f, k) =
                          IF f = freq[k] THEN 1 ELSE 0
        /\ BucketTotal(freq_to_lru, DOMAIN freq_to_lru) =
               LfuDictCache__len__(Self)

\* a full cache of two keys in two buckets, right after an eviction
C14_Witness ==
    /\ last.op = "set" /\ last.evicted # NoKey
    /\ LfuDictCache__len__(Self) = 2
    /\ Cardinality(DOMAIN freq_to_lru) = 2

\* C15: the index has a bucket for count f exactly when some stored key has
\* count f, and no bucket of the index is empty.
C15_BucketIffMember ==
    alive =>
        /\ \A f \in DOMAIN freq_to_lru \cup {freq[k] : k \in DOMAIN freq} :
               f \in DOMAIN freq_to_lru <=>
                   \E k \in StoredKeys : k \in DOMAIN freq /\ freq[k] = f
        /\ \A f \in DOMAIN freq_to_lru : DictCache__len__(freq_to_lru[f]) > 0

\* a get moved the only key of bucket 1 to bucket 2, next to another key
C15_Witness ==
    /\ last.op = "get" /\ last.exc = NoExc
    /\ DOMAIN freq_to_lru = {2}
    /\ DictCache__len__(freq_to_lru[2]) = 2

\* C16: every count is at least 1; a key that becomes stored has count 1 and
\* was the key of a set; the count of a key that stays stored does not
\* decrease, and changes only in a get or set of that key.
C16_CountsPositive == \A k \in DOMAIN freq : freq[k] \in Nat /\ freq[k] >= 1

C16_CountStep ==
    /\ \A k \in DOMAIN freq' \ DOMAIN freq :
           /\ freq'[k] = 1
           /\ Called("set") /\ last'.key = k
    /\ \A k \in DOMAIN freq' \cap DOMAIN freq :
           /\ freq'[k] >= freq[k]
           /\ freq'[k] # freq[k] =>
                  /\ Called("get") \/ Called("set")
                  /\ last'.key = k

C16_Counts == []C16_CountsPositive /\ [][C16_CountStep]_vars

\* a key entered at count 1 by evicting another, beside a key of count 3
C16_Witness ==
    /\ last.op = "set" /\ last.evicted # NoKey
    /\ last.key \in DOMAIN freq /\ freq[last.key] = 1
    /\ \E k \in DOMAIN freq : freq[k] = 3

\* C17: the keys of every bucket are in the order of their last touch, least
\* recently touched first; a get or overwriting set of a key of count f
\* leaves it the last key of bucket f + 1.
C17_BucketOrder ==
    alive =>
        \A f \in DOMAIN freq_to_lru :
            BucketKeys(freq_to_lru, f) =
                SelectSeq(touched, LAMBDA k : k \in DOMAIN freq /\ freq[k] = f)

C17_TouchStep ==
    /\ Called("get") \/ Called("set")
    /\ Stored(last'.key) /\ last'.exc = NoExc
    => LET f == freq[last'.key]
           bucket == BucketKeys(freq_to_lru', f + 1)
       IN  /\ f + 1 \in DOMAIN freq_to_lru'
           /\ bucket[Len(bucket)] = last'.key

C17_TouchOrder == []C17_BucketOrder /\ [][C17_TouchStep]_vars

\* the key inserted first was read after another key of the same count
C17_Witness ==
    /\ last.op = "get" /\ last.exc = NoExc
    /\ LfuDictCache__iter__(Self)[1] = last.key
    /\ 2 \in DOMAIN freq_to_lru
    /\ DictCache__len__(freq_to_lru[2]) = 2
    /\ BucketKeys(freq_to_lru, 2)[2] = last.key

\* C18: every bucket has the capacity of the cache; when a get or set adds
\* its key to a bucket of a cache of capacity >= 1, the bucket held fewer keys
\* than its capacity before, the key is appended to them and nothing is
\* dropped; every other bucket loses only the keys that left the value map or
\* moved.
C18_BucketCapacity ==
    alive => \A f \in DOMAIN freq_to_lru : freq_to_lru[f].maxsize = max_size

C18_InsertStep ==
    /\ Called("get") \/ Called("set")
    /\ last'.exc = NoExc /\ max_size >= 1
    => LET key == last'.key
           g == IF Stored(key) THEN freq[key] + 1 ELSE 1
           before == Without(BucketKeys(freq_to_lru, g), last'.evicted)
       IN  /\ g \in DOMAIN freq_to_lru'
           /\ Len(before) < freq_to_lru'[g].maxsize
           /\ BucketKeys(freq_to_lru', g) = Append(before, key)
           /\ \A f \in (DOMAIN freq_to_lru \cup DOMAIN freq_to_lru') \ {g} :
                  BucketKeys(freq_to_lru', f) =
                      Without(Without(BucketKeys(freq_to_lru, f), key),
                              last'.evicted)

C18_BucketNeverFull == []C18_BucketCapacity /\ [][C18_InsertStep]_vars

\* a get filled a bucket to the capacity of the cache
C18_Witness ==
    /\ last.op = "get" /\ last.exc = NoExc
    /\ max_size = 3
    /\ 2 \in DOMAIN freq_to_lru
    /\ DictCache__len__(freq_to_lru[2]) = 3

\* C19: a set calls the eviction (capacity not 0, key not stored, cache
\* full) only when the index has a bucket and the bucket of its smallest
\* count has a key, and no set raises, whatever the capacity >= 0.
C19_EvictionReady ==
    /\ Called("set") => last'.exc = NoExc
    /\ /\ Called("set")
       /\ max_size # 0 /\ ~Stored(last'.key)
       /\ LfuDictCache__len__(Self) >= max_size
       => /\ DOMAIN freq_to_lru # {}
          /\ DictCache__len__(freq_to_lru[peekitem_first(freq_to_lru)]) >= 1
          /\ last'.evicted = next_iter(freq_to_lru[peekitem_first(freq_to_lru)])

C19_SetNeverRaises == [][C19_EvictionReady]_vars

\* a set into a full cache of capacity 1 evicted the key it held
C19_Witness ==
    /\ last.op = "set" /\ last.exc = NoExc /\ last.evicted # NoKey
    /\ max_size = 1
    /\ LfuDictCache__iter__(Self) = <<last.key>>

\* C20: a get or set of a stored key leaves the same keys stored and every
\* other key with its value, its count, its bucket and its place among the
\* other keys of that bucket; a get leaves the value of its own key too.
C20_OthersUntouched ==
    /\ Called("get") \/ Called("set")
    /\ Stored(last'.key)
    => LET key == last'.key
       IN  /\ od_keyset(values') = StoredKeys
           /\ \A k \in StoredKeys \ {key} :
                  /\ od_get(values', k) = od_get(values, k)
                  /\ k \in DOMAIN freq' /\ freq'[k] = freq[k]
                  /\ Occurrences(freq_to_lru', freq[k], k) = 1
           /\ \A f \in DOMAIN freq_to_lru \cup DOMAIN freq_to_lru' :
                  Without(BucketKeys(freq_to_lru', f), key) =
                      Without(BucketKeys(freq_to_lru, f), key)
           /\ Called("get") => od_get(values', key) = od_get(values, key)

C20_Frame == [][C20_OthersUntouched]_vars

\* an overwriting set moved a key from a bucket it shared into a bucket that
\* held another key
C20_Witness ==
    /\ last.op = "set" /\ last.evicted = NoKey /\ last.exc = NoExc
    /\ LfuDictCache__len__(Self) = 3
    /\ last.key \in DOMAIN freq /\ freq[last.key] = 2
    /\ DOMAIN freq_to_lru = {1, 2}
    /\ DictCache__len__(freq_to_lru[2]) = 2

====
